---- MODULE Spec2Model ----
(***************************************************************************)
(* The enrichment pipeline handler of api/pipeline.js (and its earlier     *)
(* revision, src/unnamed/part_000) as a state machine.                      *)
(*                                                                         *)
(* Encoding of JavaScript values:                                          *)
(*   - a text is a sequence of word tokens; <<>> is the empty/missing text *)
(*   - a short string field (analysis, source, email) is a TLA+ string,    *)
(*     "" standing for a missing or empty (falsy) value                    *)
(*   - a timestamp is a natural number, 0 standing for a missing value     *)
(*   - the `stored` field holds a JavaScript value written as a string:    *)
(*     "true", "false", "undefined", or "1" (a truthy non-boolean)         *)
(*   - a record id is a natural number, NoId standing for null/undefined   *)
(***************************************************************************)
EXTENDS Integers, Sequences, FiniteSets, TLC

(* ---------------------------------------------------------------- bounds *)
MaxInvocations == 2
MaxUpstream == 4
MaxStoreLen == 2
MaxConcFetched == 2
MaxLabelLen == 2

(* ------------------------------------------------------------- constants *)
MAX_ITEMS == 3
NoId == 0
DEFAULT_SOURCE == "JSONPlaceholder Comments"
DEFAULT_EMAIL == "notification-email@example.com"
MODEL_NAME == "google:gemma-3-27b-it"
UNAVAILABLE == "Analysis unavailable."
QUOTA_MESSAGE == <<"Rate", "limit", "or", "quota", "exceeded">>
MISSING_KEY == <<"Missing", "GEMINI_API_KEY">>

Procs == {"A", "B"}

(* ---------------------------------------------------------- text helpers *)
(* String.prototype.toLowerCase on one word token. *)
toLowerCase(w) ==
    CASE w = "Rate" -> "rate"
      [] w = "Quota" -> "quota"
      [] w = "Positive" -> "positive"
      [] w = "CRITICAL" -> "critical"
      [] w = "Not" -> "not"
      [] OTHER -> w

Lowered(text) == [i \in DOMAIN text |-> toLowerCase(text[i])]

(* text.includes(word) / a one-word regular expression test *)
Includes(text, w) == \E i \in DOMAIN text : text[i] = w

(* a two-word phrase test, such as /quota exceeded/ *)
IncludesPhrase(text, w1, w2) ==
    \E i \in DOMAIN text : i + 1 \in DOMAIN text /\ text[i] = w1 /\ text[i + 1] = w2

isQuotaError(message) ==
    LET m == Lowered(message)
    IN  \/ Includes(m, "429")
        \/ IncludesPhrase(m, "quota", "exceeded")
        \/ IncludesPhrase(m, "rate", "limit")

(* a test that knows "not found" only *)
isModelMissingNotFoundOnly(message) ==
    LET m == Lowered(message)
    IN  IncludesPhrase(m, "not", "found")

(* the test of the model fallback loop: /not found|not supported/i *)
isModelMissing(message) ==
    LET m == Lowered(message)
    IN  \/ IncludesPhrase(m, "not", "found")
        \/ IncludesPhrase(m, "not", "supported")

(* the negative markers tested first *)
normalizeSentimentNegativeFirst(text) ==
    LET lowered == Lowered(text)
    IN  IF Includes(lowered, "critical") \/ Includes(lowered, "negative")
        THEN "critical"
        ELSE IF Includes(lowered, "enthusiastic") \/ Includes(lowered, "positive")
        THEN "enthusiastic"
        ELSE "objective"

(* lines 47-56 *)
normalizeSentiment(text) ==
    LET lowered == Lowered(text)
    IN  IF Includes(lowered, "enthusiastic") \/ Includes(lowered, "positive")
        THEN "enthusiastic"
        ELSE IF Includes(lowered, "critical") \/ Includes(lowered, "negative")
        THEN "critical"
        ELSE "objective"

(* Boolean(v) on the JavaScript values a `stored` field holds *)
Boolean(v) == IF v \in {"true", "1"} THEN "true" ELSE "false"

(* ------------------------------------------------- provider response text *)
(* A response text of the provider: `fenced` says it is wrapped in Markdown *)
(* code fences, `json` what the text between the fences is ("object": a     *)
(* JSON object with the fields summary and sentiment, "" / <<>> when        *)
(* absent; "prose": no JSON), `words` the words of the whole text and       *)
(* `trimmed` the whole text trimmed ("" when the text is blank).            *)
Texts ==
    { [fenced |-> TRUE, json |-> "object", summary |-> "s-fenced",
       sentiment |-> <<"Positive">>, words |-> <<"summary", "sentiment", "Positive">>,
       trimmed |-> "raw-fenced"],
      [fenced |-> FALSE, json |-> "prose", summary |-> "",
       sentiment |-> <<>>, words |-> <<"a", "CRITICAL", "remark">>,
       trimmed |-> "raw-prose"],
      [fenced |-> FALSE, json |-> "object", summary |-> "",
       sentiment |-> <<"negative">>, words |-> <<"sentiment", "negative">>,
       trimmed |-> "raw-nosummary"],
      [fenced |-> FALSE, json |-> "prose", summary |-> "",
       sentiment |-> <<>>, words |-> <<>>, trimmed |-> ""] }

stripCodeFences(text) == [text EXCEPT !.fenced = FALSE]

(* JSON.parse of a response text: an object, or the fallback null *)
safeJsonParse(text) ==
    IF ~text.fenced /\ text.json = "object"
    THEN [isNull |-> FALSE, summary |-> text.summary, sentiment |-> text.sentiment]
    ELSE [isNull |-> TRUE, summary |-> "", sentiment |-> <<>>]

(* lines 127-139: from the response text to { summary, sentiment } *)
ParseAnalysis(responseText) ==
    LET parsed == safeJsonParse(stripCodeFences(responseText))
    IN  IF parsed.isNull \/ parsed.summary = ""
        THEN [summary |-> IF responseText.trimmed # "" THEN responseText.trimmed
                          ELSE UNAVAILABLE,
              sentiment |-> normalizeSentiment(responseText.words)]
        ELSE [summary |-> parsed.summary,
              sentiment |-> normalizeSentiment(parsed.sentiment)]

(* --------------------------------------------------- enrichment provider *)
FALLBACK_MODELS ==
    << "gemma-3-27b-it", "gemma-3-12b-it", "gemma-3-1b-it", "gemini-1.5-flash-latest",
       "gemini-1.5-flash", "gemini-2-flash-latest", "gemini-2-flash",
       "gemini-3-pro-preview", "gemini-2.5-pro", "gemini-3-flash-latest",
       "gemini-3-flash", "gemini-2.5-flash" >>

(* Array.from(new Set(list)): the first occurrence of each name, in order *)
RECURSIVE Dedup(_)
Dedup(list) ==
    IF list = <<>> THEN <<>>
    ELSE LET front == Dedup(SubSeq(list, 1, Len(list) - 1))
             last == list[Len(list)]
         IN  IF \E i \in DOMAIN front : front[i] = last THEN front
             ELSE Append(front, last)

modelNames == SelectSeq(Dedup(<<MODEL_NAME>> \o FALLBACK_MODELS), LAMBDA n : n # "")

EmptyText ==
    [fenced |-> FALSE, json |-> "prose", summary |-> "", sentiment |-> <<>>,
     words |-> <<>>, trimmed |-> ""]

TextFencedJson == CHOOSE t \in Texts : t.trimmed = "raw-fenced"
TextProse == CHOOSE t \in Texts : t.trimmed = "raw-prose"

Ok(text) == [ok |-> TRUE, text |-> text, message |-> <<>>]
Err(message) == [ok |-> FALSE, text |-> EmptyText, message |-> message]

(* What the provider does during one enrichment call: its first `missing`   *)
(* candidates fail as unknown models, every later candidate ends as `final`. *)
Behaviours ==
    { [missing |-> 0, final |-> Ok(TextFencedJson)],
      [missing |-> 1, final |-> Ok(TextProse)],
      [missing |-> 0, final |-> Err(<<"429", "Too", "Many", "Requests">>)],
      [missing |-> 2, final |-> Err(<<"Quota", "exceeded", "model", "Not", "found">>)],
      [missing |-> 0, final |-> Err(<<"internal", "error">>)],
      [missing |-> Len(modelNames), final |-> Ok(TextProse)] }
        \cup { [missing |-> 0, final |-> Ok(t)] : t \in Texts }

(* model.generateContent for the candidate at position i *)
generateContent(beh, i) ==
    IF i <= beh.missing THEN Err(<<"model", "is", "Not", "supported">>) ELSE beh.final

(* lines 105-121: the fallback loop from candidate i on; `calls` counts the *)
(* generateContent invocations made.                                        *)
RECURSIVE TryModels(_, _, _)
TryModels(beh, i, lastError) ==
    IF i > Len(modelNames)
    THEN [responseText |-> EmptyText, lastError |-> lastError, calls |-> i - 1]
    ELSE LET out == generateContent(beh, i)
         IN  IF out.ok
             THEN [responseText |-> out.text,
                   lastError |-> [isNull |-> TRUE, message |-> <<>>], calls |-> i]
             ELSE LET error == [isNull |-> FALSE, message |-> out.message]
                  IN  IF ~isModelMissing(out.message)
                      THEN [responseText |-> EmptyText, lastError |-> error, calls |-> i]
                      ELSE TryModels(beh, i + 1, error)

(* the call made without testing the credential *)
analyzeWithGeminiNoKeyCheck(key, beh) ==
    LET r == TryModels(beh, 1, [isNull |-> TRUE, message |-> <<>>])
    IN  IF ~r.lastError.isNull
        THEN [threw |-> TRUE, message |-> r.lastError.message, calls |-> r.calls,
              summary |-> "", sentiment |-> ""]
        ELSE LET a == ParseAnalysis(r.responseText)
             IN  [threw |-> FALSE, message |-> <<>>, calls |-> r.calls,
                  summary |-> a.summary, sentiment |-> a.sentiment]

(* lines 73-140: the result of one call, the exception it throws if any,    *)
(* and the number of provider invocations it made.                          *)
analyzeWithGemini(key, beh) ==
    IF key = ""
    THEN [threw |-> TRUE, message |-> MISSING_KEY, calls |-> 0,
          summary |-> "", sentiment |-> ""]
    ELSE LET r == TryModels(beh, 1, [isNull |-> TRUE, message |-> <<>>])
         IN  IF ~r.lastError.isNull
             THEN [threw |-> TRUE, message |-> r.lastError.message, calls |-> r.calls,
                   summary |-> "", sentiment |-> ""]
             ELSE LET a == ParseAnalysis(r.responseText)
                  IN  [threw |-> FALSE, message |-> <<>>, calls |-> r.calls,
                       summary |-> a.summary, sentiment |-> a.sentiment]

(* ------------------------------------------------------------ stored data *)
(* The persisted file: kind "missing" (no file), "garbage" (not JSON),      *)
(* "null" / "object" / "number" / "string" (JSON that is no array), or      *)
(* "array" with the records in `items`.                                      *)
File(kind, items) == [kind |-> kind, items |-> items]

StoredRecord(id, email, source, original, analysis, sentiment, stored, timestamp) ==
    [id |-> id, email |-> email, source |-> source, original |-> original,
     analysis |-> analysis, sentiment |-> sentiment, stored |-> stored,
     timestamp |-> timestamp]

(* records a store may hold before the first invocation: a complete record, *)
(* a record with nothing but its id, a second record with the id of the     *)
(* first, and a record with no id.                                           *)
SeedRecords ==
    { StoredRecord(1, "old@example.com", "old-source", <<"old", "text">>, "old-analysis",
                   <<"Positive">>, "true", 1),
      StoredRecord(2, "", "", <<>>, "", <<>>, "undefined", 0),
      StoredRecord(1, "dup@example.com", "", <<"dup", "text">>, "dup-analysis",
                   <<"CRITICAL">>, "1", 1),
      StoredRecord(NoId, "", "old-source", <<"no", "id">>, "lost-analysis",
                   <<"negative">>, "true", 1) }

SeqsUpTo(S, n) == UNION { [1..k -> S] : k \in 0..n }

InitFiles ==
    { File(k, <<>>) : k \in {"missing", "garbage", "null", "object", "number", "string"} }
        \cup { File("array", items) : items \in SeqsUpTo(SeedRecords, MaxStoreLen) }

(* the comment the source returns at position i *)
Comment(i) == [id |-> i, body |-> <<"body", i>>]

StageError(stage, message, status, itemId) ==
    [stage |-> stage, message |-> message, status |-> status, itemId |-> itemId]

(* --------------------------------------------------------------- state *)
VARIABLES
    file,       \* the content of STORAGE_PATH
    clock,      \* the wall clock nowIso() reads
    apiKey,     \* process.env.GEMINI_API_KEY ("" when not configured)
    started,    \* number of requests received so far
    inv,        \* per invocation of the handler: its local variables
    call,       \* one call of analyzeWithGemini followed candidate by candidate
    labelled    \* one sentiment label on its way into a response item

vars == <<file, clock, apiKey, started, inv, call, labelled>>

nowIso == clock

Idle ==
    [pc |-> "idle", method |-> "", notificationEmail |-> "", sourceName |-> "",
     comments |-> <<>>, storedItems |-> <<>>, cachedById |-> <<>>,
     storedIsArray |-> TRUE, quotaExceeded |-> FALSE,
     response |-> [items |-> <<>>, notificationSent |-> FALSE, processedAt |-> 0,
                   errors |-> <<>>],
     status |-> 0,
     \* did saveStorage throw?
     saveThrew |-> FALSE,
     \* history: did fetchComments throw, how many items did the source return,
     \* and per processed item what the enrichment call did
     fetchThrew |-> FALSE, fetched |-> 0, trace |-> <<>>]

(* lines 73-140, the local variables of analyzeWithGemini: the position of  *)
(* the candidate the loop is at, responseText and lastError; `beh` is what  *)
(* the provider does during the call.  History: the candidates whose        *)
(* generateContent has not settled yet, the names invoked so far and how    *)
(* each invocation ended.                                                    *)
IdleCall ==
    [pc |-> "idle", beh |-> [missing |-> 0, final |-> Ok(EmptyText)], i |-> 1,
     responseText |-> EmptyText, lastError |-> [isNull |-> TRUE, message |-> <<>>],
     threw |-> FALSE, message |-> <<>>, summary |-> "", sentiment |-> "",
     inflight |-> {}, invoked |-> <<>>, outcomes |-> <<>>]

(* a sentiment label, the way it reaches the response ("enriched": the    *)
(* provider's JSON, "prose": a provider text that is no JSON, "cached": a    *)
(* stored record, "placeholder": no label at all) and the response item     *)
(* built from it                                                             *)
NoLabel ==
    [pc |-> "idle", label |-> <<>>, route |-> "",
     item |-> [original |-> <<>>, analysis |-> "", sentiment |-> "", stored |-> "",
               timestamp |-> 0, source |-> ""]]

Init ==
    /\ file \in InitFiles
    /\ clock = 1
    /\ apiKey \in {"", "secret"}
    /\ started = 0
    /\ inv = [p \in Procs |-> Idle]
    /\ call = IdleCall
    /\ labelled = NoLabel

(* ------------------------------------------------------ request dispatch *)
(* lines 154-183: a request arrives; OPTIONS and non-POST methods are       *)
(* answered at once, a POST initialises the response.                        *)
Bodies ==
    { [email |-> "", source |-> ""], [email |-> "me@example.com", source |-> "my-source"] }

(* a dispatch that lets every method but OPTIONS through to the pipeline *)
DispatchAnyMethod(method, body, now) ==
    IF method = "OPTIONS" THEN [Idle EXCEPT !.pc = "done", !.method = method, !.status = 204]
    ELSE [Idle EXCEPT
            !.pc = "fetch", !.method = method,
            !.notificationEmail = IF body.email # "" THEN body.email ELSE DEFAULT_EMAIL,
            !.sourceName = IF body.source # "" THEN body.source ELSE DEFAULT_SOURCE,
            !.response = [items |-> <<>>, notificationSent |-> FALSE,
                          processedAt |-> now, errors |-> <<>>]]

Dispatch(method, body, now) ==
    IF method = "OPTIONS" THEN [Idle EXCEPT !.pc = "done", !.method = method, !.status = 204]
    ELSE IF method # "POST"
    THEN [Idle EXCEPT !.pc = "done", !.method = method, !.status = 405]
    ELSE [Idle EXCEPT
            !.pc = "fetch", !.method = method,
            !.notificationEmail = IF body.email # "" THEN body.email ELSE DEFAULT_EMAIL,
            !.sourceName = IF body.source # "" THEN body.source ELSE DEFAULT_SOURCE,
            !.response = [items |-> <<>>, notificationSent |-> FALSE,
                          processedAt |-> now, errors |-> <<>>]]

Start(p) ==
    /\ inv[p].pc \in {"idle", "done", "crashed"}
    /\ started < MaxInvocations
    /\ \E method \in {"POST", "OPTIONS", "GET"}, body \in Bodies :
          inv' = [inv EXCEPT ![p] = Dispatch(method, body, clock + 1)]
    /\ clock' = clock + 1
    /\ started' = started + 1
    /\ UNCHANGED <<file, apiKey, call, labelled>>

(* ------------------------------------------------------------ fetch stage *)
(* what the source does: the request times out, answers with a non-success  *)
(* status, answers with a body that is no JSON, with JSON that is no array, *)
(* or with an array of n comments.                                           *)
Upstreams ==
    { [kind |-> k, n |-> 0] : k \in {"timeout", "status", "notjson", "notarray"} }
        \cup { [kind |-> "array", n |-> n] : n \in 0..MaxUpstream }

(* the whole array, not cut to n items *)
SliceAll(data, n) == data

(* data.slice(0, MAX_ITEMS) *)
Slice(data, n) == SubSeq(data, 1, IF Len(data) < n THEN Len(data) ELSE n)

(* lines 142-152: the comments returned, or the error thrown *)
fetchComments(up) ==
    CASE up.kind = "timeout" ->
            [threw |-> TRUE, message |-> <<"This", "operation", "was", "aborted">>,
             status |-> 0, data |-> <<>>, fetched |-> 0]
      [] up.kind = "status" ->
            [threw |-> TRUE, message |-> <<"Upstream", "API", "failed", "with", "status", "503">>,
             status |-> 503, data |-> <<>>, fetched |-> 0]
      [] up.kind = "notjson" ->
            [threw |-> TRUE, message |-> <<"Unexpected", "token">>, status |-> 0,
             data |-> <<>>, fetched |-> 0]
      [] up.kind = "notarray" ->
            [threw |-> FALSE, message |-> <<>>, status |-> 0, data |-> <<>>, fetched |-> 0]
      [] OTHER ->
            [threw |-> FALSE, message |-> <<>>, status |-> 0,
             data |-> Slice([i \in 1..up.n |-> Comment(i)], MAX_ITEMS), fetched |-> up.n]

(* a fetch failure that is swallowed without a StageError *)
AfterFetchSilent(v, r) ==
    IF r.threw
    THEN [v EXCEPT !.pc = "load", !.fetchThrew = TRUE]
    ELSE [v EXCEPT !.pc = "load", !.comments = r.data, !.fetched = r.fetched]

(* lines 185-190 *)
AfterFetch(v, r) ==
    IF r.threw
    THEN [v EXCEPT !.pc = "load", !.fetchThrew = TRUE,
            !.response.errors = Append(@, StageError("fetch", r.message,
                                    IF r.status # 0 THEN r.status ELSE 500, NoId))]
    ELSE [v EXCEPT !.pc = "load", !.comments = r.data, !.fetched = r.fetched]

Fetch(p) ==
    /\ inv[p].pc = "fetch"
    /\ \E up \in Upstreams : inv' = [inv EXCEPT ![p] = AfterFetch(inv[p], fetchComments(up))]
    /\ UNCHANGED <<file, clock, apiKey, started, call, labelled>>

(* ------------------------------------------------------------- load stage *)
(* lines 58-65: the value loadStorage resolves to, as a File: an array, or  *)
(* parsed JSON that is no array ([] when reading or parsing failed).         *)
loadStorage(f) ==
    IF f.kind \in {"missing", "garbage"} THEN File("array", <<>>) ELSE f

(* for (const item of loadedItems) throws a TypeError on a value that is    *)
(* not iterable; a string iterates over its characters, which have no id.   *)
IsIterable(loaded) == loaded.kind \in {"array", "string"}

(* a de-duplication that keeps the last record of each id *)
RECURSIVE DedupByIdKeepLast(_, _)
DedupByIdKeepLast(items, seen) ==
    IF items = <<>> THEN <<>>
    ELSE LET item == Head(items)
         IN  IF item.id = NoId \/ \E j \in DOMAIN Tail(items) : Tail(items)[j].id = item.id
             THEN DedupByIdKeepLast(Tail(items), seen)
             ELSE <<[item EXCEPT !.stored = Boolean(item.stored)]>>
                      \o DedupByIdKeepLast(Tail(items), seen \cup {item.id})

(* lines 193-208: the first record of each id, records without id dropped,  *)
(* `stored` coerced to a boolean.                                            *)
RECURSIVE DedupById(_, _)
DedupById(items, seen) ==
    IF items = <<>> THEN <<>>
    ELSE LET item == Head(items)
         IN  IF item.id = NoId \/ item.id \in seen
             THEN DedupById(Tail(items), seen)
             ELSE <<[item EXCEPT !.stored = Boolean(item.stored)]>>
                      \o DedupById(Tail(items), seen \cup {item.id})

(* lines 209-214: the Map from id to record; a later record of an id        *)
(* replaces an earlier one.                                                  *)
BuildCache(items) ==
    [id \in { items[i].id : i \in { j \in DOMAIN items : items[j].id # NoId } } |->
        LET last == CHOOSE i \in DOMAIN items :
                        /\ items[i].id = id
                        /\ \A j \in DOMAIN items : items[j].id = id => j <= i
        IN  items[last]]

LoopPc(v) == IF Len(v.response.items) < Len(v.comments) THEN "loop" ELSE "save"

(* lines 192-215 *)
AfterLoad(v, loaded) ==
    IF ~IsIterable(loaded) THEN [v EXCEPT !.pc = "crashed"]
    ELSE LET storedItems == DedupById(loaded.items, {})
             w == [v EXCEPT !.storedItems = storedItems,
                            !.cachedById = BuildCache(storedItems),
                            !.quotaExceeded = FALSE]
         IN  [w EXCEPT !.pc = LoopPc(w)]

Load(p) ==
    /\ inv[p].pc = "load"
    /\ inv' = [inv EXCEPT ![p] = AfterLoad(inv[p], loadStorage(file))]
    /\ UNCHANGED <<file, clock, apiKey, started, call, labelled>>

(* -------------------------------------------------------- the item loop *)
ResponseItem(original, analysis, sentiment, stored, timestamp, source) ==
    [original |-> original, analysis |-> analysis, sentiment |-> sentiment,
     stored |-> stored, timestamp |-> timestamp, source |-> source]

(* a cache hit that reports the flag the record holds *)
CachedItemFlagOfRecord(cached, comment, itemTimestamp, sourceName) ==
    ResponseItem(IF cached.original # <<>> THEN cached.original ELSE comment.body,
                 IF cached.analysis # "" THEN cached.analysis ELSE UNAVAILABLE,
                 normalizeSentiment(cached.sentiment),
                 Boolean(cached.stored),
                 IF cached.timestamp # 0 THEN cached.timestamp ELSE itemTimestamp,
                 IF cached.source # "" THEN cached.source ELSE sourceName)

(* lines 221-228 *)
CachedItem(cached, comment, itemTimestamp, sourceName) ==
    ResponseItem(IF cached.original # <<>> THEN cached.original ELSE comment.body,
                 IF cached.analysis # "" THEN cached.analysis ELSE UNAVAILABLE,
                 normalizeSentiment(cached.sentiment),
                 "true",
                 IF cached.timestamp # 0 THEN cached.timestamp ELSE itemTimestamp,
                 IF cached.source # "" THEN cached.source ELSE sourceName)

(* lines 233-239 and 281-287 *)
Placeholder(comment, itemTimestamp) ==
    ResponseItem(comment.body, UNAVAILABLE, "objective", "false", itemTimestamp, "")

(* lines 245-252 *)
EnrichedItem(comment, analysis, itemTimestamp, sourceName) ==
    ResponseItem(comment.body, analysis.summary, analysis.sentiment, "true",
                 itemTimestamp, sourceName)

(* lines 254-263; the sentiment label is kept as a one-word text *)
NewRecord(comment, analysis, itemTimestamp, notificationEmail, sourceName) ==
    StoredRecord(comment.id, notificationEmail, sourceName, comment.body,
                 analysis.summary, <<analysis.sentiment>>, "true", itemTimestamp)

(* the latch consulted before the cache *)
BranchLatchFirst(cachedById, quotaExceeded, id) ==
    IF quotaExceeded THEN "skip"
    ELSE IF id \in DOMAIN cachedById THEN "cached"
    ELSE "call"

(* lines 219-243: which branch of the loop body an item takes: the cache    *)
(* hit, the skip under the quota latch, or the enrichment call.              *)
Branch(cachedById, quotaExceeded, id) ==
    IF id \in DOMAIN cachedById THEN "cached"
    ELSE IF quotaExceeded THEN "skip"
    ELSE "call"

(* a quota failure that reports its error but does not set the latch *)
AfterFailureNoLatch(errors, quotaExceeded, message, itemId) ==
    IF isQuotaError(message)
    THEN [errors |-> IF ~quotaExceeded
                     THEN Append(errors, StageError("analysis", QUOTA_MESSAGE, 0, itemId))
                     ELSE errors,
          quotaExceeded |-> quotaExceeded]
    ELSE [errors |-> Append(errors, StageError("analysis", message, 0, itemId)),
          quotaExceeded |-> quotaExceeded]

(* other failures reported once per batch, as quota failures are *)
AfterFailureOncePerBatch(errors, quotaExceeded, message, itemId) ==
    IF isQuotaError(message)
    THEN [errors |-> IF ~quotaExceeded
                     THEN Append(errors, StageError("analysis", QUOTA_MESSAGE, 0, itemId))
                     ELSE errors,
          quotaExceeded |-> TRUE]
    ELSE [errors |-> IF \E k \in DOMAIN errors : errors[k].stage = "analysis"
                     THEN errors
                     ELSE Append(errors, StageError("analysis", message, 0, itemId)),
          quotaExceeded |-> quotaExceeded]

(* a latch that every failed call sets *)
AfterFailureLatchAlways(errors, quotaExceeded, message, itemId) ==
    IF isQuotaError(message)
    THEN [errors |-> IF ~quotaExceeded
                     THEN Append(errors, StageError("analysis", QUOTA_MESSAGE, 0, itemId))
                     ELSE errors,
          quotaExceeded |-> TRUE]
    ELSE [errors |-> Append(errors, StageError("analysis", message, 0, itemId)),
          quotaExceeded |-> TRUE]

(* errors kept newest first *)
AfterFailureNewestFirst(errors, quotaExceeded, message, itemId) ==
    IF isQuotaError(message)
    THEN [errors |-> IF ~quotaExceeded
                     THEN <<StageError("analysis", QUOTA_MESSAGE, 0, itemId)>> \o errors
                     ELSE errors,
          quotaExceeded |-> TRUE]
    ELSE [errors |-> <<StageError("analysis", message, 0, itemId)>> \o errors,
          quotaExceeded |-> quotaExceeded]

(* lines 265-280: the errors list and the latch after a failed call *)
AfterFailure(errors, quotaExceeded, message, itemId) ==
    IF isQuotaError(message)
    THEN [errors |-> IF ~quotaExceeded
                     THEN Append(errors, StageError("analysis", QUOTA_MESSAGE, 0, itemId))
                     ELSE errors,
          quotaExceeded |-> TRUE]
    ELSE [errors |-> Append(errors, StageError("analysis", message, 0, itemId)),
          quotaExceeded |-> quotaExceeded]

NoCall == [calls |-> 0, threw |-> FALSE, message |-> <<>>]

(* lines 217-289: one iteration of the loop, for the next comment; `r` is   *)
(* what analyzeWithGemini does if it is called.                              *)
ProcessItem(v, r, now) ==
    LET comment == v.comments[Len(v.response.items) + 1]
        itemTimestamp == now
        branch == Branch(v.cachedById, v.quotaExceeded, comment.id)
        w == IF branch = "cached"
             THEN [v EXCEPT
                     !.response.items = Append(@, CachedItem(v.cachedById[comment.id],
                                            comment, itemTimestamp, v.sourceName)),
                     !.trace = Append(@, NoCall)]
             ELSE IF branch = "skip"
             THEN [v EXCEPT
                     !.response.items = Append(@, Placeholder(comment, itemTimestamp)),
                     !.trace = Append(@, NoCall)]
             ELSE IF ~r.threw
             THEN [v EXCEPT
                     !.response.items = Append(@, EnrichedItem(comment, r, itemTimestamp,
                                                               v.sourceName)),
                     !.storedItems = Append(@, NewRecord(comment, r, itemTimestamp,
                                                v.notificationEmail, v.sourceName)),
                     !.trace = Append(@, [calls |-> r.calls, threw |-> FALSE,
                                          message |-> <<>>])]
             ELSE LET f == AfterFailure(v.response.errors, v.quotaExceeded, r.message,
                                        comment.id)
                  IN  [v EXCEPT
                         !.response.errors = f.errors,
                         !.quotaExceeded = f.quotaExceeded,
                         !.response.items = Append(@, Placeholder(comment, itemTimestamp)),
                         !.trace = Append(@, [calls |-> r.calls, threw |-> TRUE,
                                              message |-> r.message])]
    IN  [w EXCEPT !.pc = LoopPc(w)]

(* a cached or skipped item makes no call: the provider's behaviour is not  *)
(* consulted for it.                                                         *)
NeedsCall(v) ==
    LET comment == v.comments[Len(v.response.items) + 1]
    IN  Branch(v.cachedById, v.quotaExceeded, comment.id) = "call"

Item(p) ==
    /\ inv[p].pc = "loop"
    /\ \E beh \in Behaviours :
          /\ ~NeedsCall(inv[p]) \/ apiKey = "" =>
                beh = CHOOSE b \in Behaviours : TRUE
          /\ inv' = [inv EXCEPT ![p] =
                        ProcessItem(inv[p], analyzeWithGemini(apiKey, beh), nowIso)]
    /\ UNCHANGED <<file, clock, apiKey, started, call, labelled>>

(* ------------------------------------------------------------ save stage *)
(* lines 291-305: every `stored` flag coerced to a boolean *)
NormalizeStored(items) == [i \in DOMAIN items |-> [items[i] EXCEPT !.stored = Boolean(@)]]

(* a save that adds the items to what the file holds *)
saveStorageAppend(f, items, outcome) ==
    CASE outcome = "ok" -> File("array", (IF f.kind = "array" THEN f.items ELSE <<>>) \o items)
      [] outcome = "denied" -> f
      [] OTHER -> File("garbage", <<>>)

(* lines 67-71: the file after saveStorage(items): written whole, left      *)
(* untouched when the directory or file cannot be written, or left cut      *)
(* short when the write fails midway.                                        *)
saveStorage(f, items, outcome) ==
    CASE outcome = "ok" -> File("array", items)
      [] outcome = "denied" -> f
      [] OTHER -> File("garbage", <<>>)

(* a save that reads the file again and writes its own records behind those *)
(* of the file that it does not hold                                         *)
SaveMerging(p) ==
    /\ inv[p].pc = "save"
    /\ \E outcome \in {"ok", "denied", "partial"} :
          LET mine == NormalizeStored(inv[p].storedItems)
              theirs == SelectSeq(IF file.kind = "array" THEN file.items ELSE <<>>,
                                  LAMBDA r : \A i \in DOMAIN mine : mine[i].id # r.id)
          IN  /\ file' = saveStorage(file, theirs \o mine, outcome)
              /\ inv' = [inv EXCEPT ![p].pc = "notify",
                                    ![p].response.items = NormalizeStored(@),
                                    ![p].saveThrew = (outcome # "ok")]
    /\ UNCHANGED <<clock, apiKey, started, call, labelled>>

(* lines 291-308: normalisation, then the write *)
Save(p) ==
    /\ inv[p].pc = "save"
    /\ \E outcome \in {"ok", "denied", "partial"} :
          /\ file' = saveStorage(file, NormalizeStored(inv[p].storedItems), outcome)
          /\ inv' = [inv EXCEPT ![p].pc = "notify",
                                ![p].response.items = NormalizeStored(@),
                                ![p].saveThrew = (outcome # "ok")]
    /\ UNCHANGED <<clock, apiKey, started, call, labelled>>

(* a failed save that takes back the stored flags of the response *)
FinishRollback(v) ==
    [v EXCEPT
        !.pc = "done",
        !.response.errors = IF v.saveThrew
                            THEN Append(@, StageError("storage", <<"EACCES">>, 0, NoId))
                            ELSE @,
        !.response.items = IF v.saveThrew
                           THEN [i \in DOMAIN @ |-> [@[i] EXCEPT !.stored = "false"]]
                           ELSE @,
        !.response.notificationSent = TRUE,
        !.status = 200]

(* a notification flag that reports whether the run had no error *)
FinishNotifyOnSuccess(v) ==
    [v EXCEPT
        !.pc = "done",
        !.response.errors = IF v.saveThrew
                            THEN Append(@, StageError("storage", <<"EACCES">>, 0, NoId))
                            ELSE @,
        !.response.notificationSent = (v.response.errors = <<>> /\ ~v.saveThrew),
        !.status = 200]

(* lines 309-316: the storage error if the write failed, the notification,  *)
(* and the response.                                                         *)
Finish(v) ==
    [v EXCEPT
        !.pc = "done",
        !.response.errors = IF v.saveThrew
                            THEN Append(@, StageError("storage", <<"EACCES">>, 0, NoId))
                            ELSE @,
        !.response.notificationSent = TRUE,
        !.status = 200]

Respond(p) ==
    /\ inv[p].pc = "notify"
    /\ inv' = [inv EXCEPT ![p] = Finish(inv[p])]
    /\ UNCHANGED <<file, clock, apiKey, started, call, labelled>>

(* --------------------------------------------------------- specification *)
(* requests served one after the other by one instance *)
Next ==
    \/ Start("A")
    \/ Fetch("A")
    \/ Load("A")
    \/ Item("A")
    \/ Save("A")
    \/ Respond("A")

Spec == Init /\ [][Next]_vars

(* ------------------------------------------- two overlapping invocations *)
(* Two POST requests served by the same instance: the handler is async, so  *)
(* the steps of the two invocations interleave at its await points (the     *)
(* fetch, the load, each enrichment call, the save).                         *)
ConcFiles ==
    { f \in InitFiles : f.kind = "missing" \/ (f.kind = "array" /\ Len(f.items) <= 1) }

ConcBehaviours ==
    { b \in Behaviours :
        b.missing = 0 /\ b.final \in {Ok(TextFencedJson), Err(<<"internal", "error">>)} }

InitConc ==
    /\ Init
    /\ file \in ConcFiles
    /\ apiKey = "secret"

(* a request that arrives while no other invocation has reached the end of *)
(* its save: the invocations overlap                                         *)
StartPost(p) ==
    /\ Start(p)
    /\ inv[p].pc = "idle"
    /\ \A q \in Procs : inv[q].pc \in {"idle", "fetch", "load", "loop", "save"}
    /\ inv'[p].method = "POST"
    /\ inv'[p].sourceName = DEFAULT_SOURCE

FetchSome(p) ==
    /\ Fetch(p)
    /\ ~inv'[p].fetchThrew
    /\ inv'[p].fetched \in 1..MaxConcFetched

ItemSimple(p) ==
    /\ Item(p)
    /\ \E beh \in ConcBehaviours :
          inv'[p] = ProcessItem(inv[p], analyzeWithGemini(apiKey, beh), nowIso)

NextConc ==
    \E p \in Procs :
        \/ StartPost(p)
        \/ FetchSome(p)
        \/ Load(p)
        \/ ItemSimple(p)
        \/ Save(p)
        \/ Respond(p)

SpecConc == InitConc /\ [][NextConc]_vars

(* ------------------------------------- the enrichment call, step by step *)
(* how a candidate may end once the unknown models are past: a response     *)
(* text, or an error of the provider.                                        *)
FinalOutcomes ==
    { Ok(t) : t \in Texts }
        \cup { Err(<<"429", "Too", "Many", "Requests">>),
               Err(<<"internal", "error">>),
               Err(<<"models/x", "is", "not", "found">>),
               Err(<<"Quota", "exceeded", "model", "Not", "found">>),
               Err(<<"found", "but", "not", "allowed">>) }

(* any number of candidates unknown to the provider, then one final outcome *)
CallBehaviours == [missing : 0..Len(modelNames), final : FinalOutcomes]

NoError == [isNull |-> TRUE, message |-> <<>>]

(* lines 75-77 and 105: the credential test, then the loop is entered *)
BeginCall ==
    /\ call.pc = "idle"
    /\ call' = IF apiKey = ""
               THEN [call EXCEPT !.pc = "threw", !.threw = TRUE, !.message = MISSING_KEY]
               ELSE [call EXCEPT !.pc = "loop"]
    /\ UNCHANGED <<file, clock, apiKey, started, inv, labelled>>

(* lines 107-108: generateContent is called for the candidate the loop is   *)
(* at, and awaited.                                                          *)
InvokeModel ==
    /\ call.pc = "loop"
    /\ call.inflight = {}
    /\ call' = [call EXCEPT !.inflight = {call.i},
                            !.invoked = Append(@, modelNames[call.i])]
    /\ UNCHANGED <<file, clock, apiKey, started, inv, labelled>>

(* a success that leaves the error of an earlier candidate in place *)
AfterAttemptKeepsError(c, out) ==
    IF out.ok
    THEN [c EXCEPT !.responseText = out.text, !.pc = "after"]
    ELSE LET failed == [c EXCEPT !.lastError = [isNull |-> FALSE, message |-> out.message]]
         IN  IF ~isModelMissing(out.message)
             THEN [failed EXCEPT !.pc = "after"]
             ELSE [failed EXCEPT !.i = c.i + 1,
                                 !.pc = IF c.i + 1 > Len(modelNames) THEN "after" ELSE "loop"]

(* lines 109-120: the candidate's call has settled with `out` *)
AfterAttempt(c, out) ==
    IF out.ok
    THEN [c EXCEPT !.responseText = out.text, !.lastError = NoError, !.pc = "after"]
    ELSE LET failed == [c EXCEPT !.lastError = [isNull |-> FALSE, message |-> out.message]]
         IN  IF ~isModelMissing(out.message)
             THEN [failed EXCEPT !.pc = "after"]
             ELSE [failed EXCEPT !.i = c.i + 1,
                                 !.pc = IF c.i + 1 > Len(modelNames) THEN "after" ELSE "loop"]

SettleModel ==
    /\ call.pc = "loop"
    /\ \E k \in call.inflight :
          LET out == generateContent(call.beh, k)
          IN  call' = [AfterAttempt(call, out) EXCEPT !.inflight = @ \ {k},
                                                      !.outcomes = Append(@, out)]
    /\ UNCHANGED <<file, clock, apiKey, started, inv, labelled>>

(* lines 123-139: lastError is thrown, or the response text is parsed *)
EndCall ==
    /\ call.pc = "after"
    /\ call' = IF ~call.lastError.isNull
               THEN [call EXCEPT !.pc = "threw", !.threw = TRUE,
                                 !.message = call.lastError.message]
               ELSE LET a == ParseAnalysis(call.responseText)
                    IN  [call EXCEPT !.pc = "returned", !.summary = a.summary,
                                     !.sentiment = a.sentiment]
    /\ UNCHANGED <<file, clock, apiKey, started, inv, labelled>>

(* one call of analyzeWithGemini, for every behaviour of the provider *)
InitAnalyze ==
    /\ file = File("missing", <<>>)
    /\ clock = 1
    /\ apiKey \in {"", "secret"}
    /\ started = 0
    /\ inv = [p \in Procs |-> Idle]
    /\ call \in { [IdleCall EXCEPT !.beh = b] : b \in CallBehaviours }
    /\ labelled = NoLabel

NextAnalyze ==
    \/ BeginCall
    \/ InvokeModel
    \/ SettleModel
    \/ EndCall

SpecAnalyze == InitAnalyze /\ [][NextAnalyze]_vars

(* ------------------------------------------- sentiment labels to items *)
(* the words a label is made of: markers in the spellings the provider and  *)
(* old records use, and a word that is no marker                             *)
LabelWords == {"Positive", "enthusiastic", "negative", "CRITICAL", "mixed"}

Labels == SeqsUpTo(LabelWords, MaxLabelLen)

(* lines 243-252: the provider answers with JSON whose sentiment is the label *)
LabelEnriched ==
    /\ labelled.pc = "idle"
    /\ LET text == [fenced |-> TRUE, json |-> "object", summary |-> "s-label",
                    sentiment |-> labelled.label,
                    words |-> <<"summary", "sentiment">> \o labelled.label,
                    trimmed |-> "raw-label"]
           a == ParseAnalysis(text)
       IN  labelled' = [labelled EXCEPT !.pc = "done", !.route = "enriched",
                           !.item = EnrichedItem(Comment(1), a, nowIso, DEFAULT_SOURCE)]
    /\ UNCHANGED <<file, clock, apiKey, started, inv, call>>

(* lines 127-139, 243-252: the provider answers with text that is no JSON   *)
LabelProse ==
    /\ labelled.pc = "idle"
    /\ LET text == [fenced |-> FALSE, json |-> "prose", summary |-> "",
                    sentiment |-> <<>>, words |-> labelled.label,
                    trimmed |-> IF labelled.label = <<>> THEN "" ELSE "raw-label"]
           a == ParseAnalysis(text)
       IN  labelled' = [labelled EXCEPT !.pc = "done", !.route = "prose",
                           !.item = EnrichedItem(Comment(1), a, nowIso, DEFAULT_SOURCE)]
    /\ UNCHANGED <<file, clock, apiKey, started, inv, call>>

(* lines 219-230: the label is the sentiment of the cached record *)
LabelCached ==
    /\ labelled.pc = "idle"
    /\ LET cached == StoredRecord(1, "old@example.com", "old-source", <<"old", "text">>,
                                  "old-analysis", labelled.label, "true", 1)
       IN  labelled' = [labelled EXCEPT !.pc = "done", !.route = "cached",
                           !.item = CachedItem(cached, Comment(1), nowIso, DEFAULT_SOURCE)]
    /\ UNCHANGED <<file, clock, apiKey, started, inv, call>>

(* lines 232-241, 281-287: the item is a placeholder *)
LabelPlaceholder ==
    /\ labelled.pc = "idle"
    /\ labelled' = [labelled EXCEPT !.pc = "done", !.route = "placeholder",
                        !.item = Placeholder(Comment(1), nowIso)]
    /\ UNCHANGED <<file, clock, apiKey, started, inv, call>>

InitSentiment ==
    /\ file = File("missing", <<>>)
    /\ clock = 1
    /\ apiKey = "secret"
    /\ started = 0
    /\ inv = [p \in Procs |-> Idle]
    /\ call = IdleCall
    /\ labelled \in { [NoLabel EXCEPT !.label = l] : l \in Labels }

NextSentiment ==
    \/ LabelEnriched
    \/ LabelProse
    \/ LabelCached
    \/ LabelPlaceholder

SpecSentiment == InitSentiment /\ [][NextSentiment]_vars

(* ------------------------------------------------ the earlier revision *)
(* src/unnamed/part_000: the handler without cache, latch and fallback.    *)
normalizeSentimentV0(text) ==
    LET lowered == Lowered(text)
    IN  IF Includes(lowered, "enthusiastic") \/ Includes(lowered, "positive")
        THEN "positive"
        ELSE IF Includes(lowered, "critical") \/ Includes(lowered, "negative")
        THEN "negative"
        ELSE "neutral"

(* part_000 lines 61-93: one model, no fallback, no fence stripping *)
analyzeWithGeminiV0(key, beh) ==
    IF key = ""
    THEN [threw |-> TRUE, message |-> MISSING_KEY, calls |-> 0,
          summary |-> "", sentiment |-> ""]
    ELSE LET out == generateContent(beh, 1)
             parsed == safeJsonParse(out.text)
         IN  IF ~out.ok
             THEN [threw |-> TRUE, message |-> out.message, calls |-> 1,
                   summary |-> "", sentiment |-> ""]
             ELSE IF parsed.isNull \/ parsed.summary = ""
             THEN [threw |-> FALSE, message |-> <<>>, calls |-> 1,
                   summary |-> out.text.trimmed,
                   sentiment |-> normalizeSentimentV0(out.text.words)]
             ELSE [threw |-> FALSE, message |-> <<>>, calls |-> 1,
                   summary |-> parsed.summary,
                   sentiment |-> normalizeSentimentV0(parsed.sentiment)]

(* part_000 lines 107-123 *)
DispatchV0(method, body, now) ==
    IF method # "POST"
    THEN [Idle EXCEPT !.pc = "done", !.method = method, !.status = 405]
    ELSE Dispatch(method, body, now)

StartV0(p) ==
    /\ inv[p].pc \in {"idle", "done", "crashed"}
    /\ started < MaxInvocations
    /\ \E method \in {"POST", "GET"}, body \in Bodies :
          inv' = [inv EXCEPT ![p] = DispatchV0(method, body, clock + 1)]
    /\ clock' = clock + 1
    /\ started' = started + 1
    /\ UNCHANGED <<file, apiKey, call, labelled>>

(* part_000 lines 125-130 *)
FetchV0(p) ==
    /\ inv[p].pc = "fetch"
    /\ \E up \in Upstreams : inv' = [inv EXCEPT ![p] = AfterFetch(inv[p], fetchComments(up))]
    /\ UNCHANGED <<file, clock, apiKey, started, call, labelled>>

(* part_000 line 132: the loaded value is the working collection as it is *)
AfterLoadV0(v, loaded) ==
    LET w == [v EXCEPT !.storedItems = loaded.items,
                       !.storedIsArray = (loaded.kind = "array")]
    IN  [w EXCEPT !.pc = LoopPc(w)]

LoadV0(p) ==
    /\ inv[p].pc = "load"
    /\ inv' = [inv EXCEPT ![p] = AfterLoadV0(inv[p], loadStorage(file))]
    /\ UNCHANGED <<file, clock, apiKey, started, call, labelled>>

(* part_000 lines 162-168 *)
PlaceholderV0(comment, itemTimestamp) ==
    ResponseItem(comment.body, "", "neutral", "false", itemTimestamp, "")

(* part_000 lines 147-155: the record has no `stored` field *)
NewRecordV0(comment, analysis, itemTimestamp, notificationEmail, sourceName) ==
    StoredRecord(comment.id, notificationEmail, sourceName, comment.body,
                 analysis.summary, <<analysis.sentiment>>, "undefined", itemTimestamp)

(* part_000 lines 134-170: one iteration; storedItems.push throws inside   *)
(* the try block, after the enriched item was pushed, when the loaded       *)
(* value is no array.                                                        *)
ProcessItemV0(v, r, now) ==
    LET comment == v.comments[Len(v.trace) + 1]
        itemTimestamp == now
        enriched == EnrichedItem(comment, r, itemTimestamp, v.sourceName)
        pushError == StageError("analysis", <<"storedItems.push", "is", "not", "a", "function">>,
                                0, comment.id)
        w == IF ~r.threw /\ v.storedIsArray
             THEN [v EXCEPT
                     !.response.items = Append(@, enriched),
                     !.storedItems = Append(@, NewRecordV0(comment, r, itemTimestamp,
                                                  v.notificationEmail, v.sourceName)),
                     !.trace = Append(@, [calls |-> r.calls, threw |-> FALSE,
                                          message |-> <<>>])]
             ELSE IF ~r.threw
             THEN [v EXCEPT
                     !.response.items = @ \o <<enriched, PlaceholderV0(comment, itemTimestamp)>>,
                     !.response.errors = Append(@, pushError),
                     !.trace = Append(@, [calls |-> r.calls, threw |-> FALSE,
                                          message |-> <<>>])]
             ELSE [v EXCEPT
                     !.response.errors = Append(@, StageError("analysis", r.message, 0,
                                                              comment.id)),
                     !.response.items = Append(@, PlaceholderV0(comment, itemTimestamp)),
                     !.trace = Append(@, [calls |-> r.calls, threw |-> TRUE,
                                          message |-> r.message])]
    IN  [w EXCEPT !.pc = IF Len(w.trace) < Len(w.comments) THEN "loop" ELSE "save"]

(* the provider's answers to the single model of this revision *)
BehavioursV0 ==
    { b \in Behaviours :
        /\ b.missing = 0
        /\ b.final \in {Ok(TextFencedJson), Ok(TextProse), Err(<<"internal", "error">>)} }

ItemV0(p) ==
    /\ inv[p].pc = "loop"
    /\ \E beh \in BehavioursV0 :
          /\ apiKey = "" => beh = CHOOSE b \in BehavioursV0 : TRUE
          /\ inv' = [inv EXCEPT ![p] =
                        ProcessItemV0(inv[p], analyzeWithGeminiV0(apiKey, beh), nowIso)]
    /\ UNCHANGED <<file, clock, apiKey, started, call, labelled>>

(* part_000 lines 172-173: the working collection is written as it is; a   *)
(* loaded value that is no array is written back unchanged.                  *)
SaveV0(p) ==
    /\ inv[p].pc = "save"
    /\ \E outcome \in {"ok", "denied", "partial"} :
          /\ file' = IF inv[p].storedIsArray
                     THEN saveStorage(file, inv[p].storedItems, outcome)
                     ELSE IF outcome = "partial" THEN File("garbage", <<>>) ELSE file
          /\ inv' = [inv EXCEPT ![p].pc = "notify", ![p].saveThrew = (outcome # "ok")]
    /\ UNCHANGED <<clock, apiKey, started, call, labelled>>

(* part_000 lines 174-181 *)
RespondV0(p) ==
    /\ inv[p].pc = "notify"
    /\ inv' = [inv EXCEPT ![p] = Finish(inv[p])]
    /\ UNCHANGED <<file, clock, apiKey, started, call, labelled>>

NextV0 ==
    \/ StartV0("A")
    \/ FetchV0("A")
    \/ LoadV0("A")
    \/ ItemV0("A")
    \/ SaveV0("A")
    \/ RespondV0("A")

SpecV0 == Init /\ [][NextV0]_vars

(* ============================================================ properties *)
(* the record of id `id` a load of the file yields: its first one *)
FirstWithId(items, id) ==
    items[CHOOSE i \in DOMAIN items :
             items[i].id = id /\ \A j \in DOMAIN items : items[j].id = id => i <= j]

IdsOf(items) == { items[i].id : i \in DOMAIN items } \ {NoId}

(* the invocation has loaded the file and not yet written it *)
InLoop(v) == v.pc \in {"loop", "save"}

IsPlaceholderFor(item, comment) ==
    /\ item.original = comment.body
    /\ item.analysis = UNAVAILABLE
    /\ item.sentiment = "objective"
    /\ item.stored = "false"
    /\ item.source = ""

AnalysisErrors(v) ==
    { k \in DOMAIN v.response.errors : v.response.errors[k].stage = "analysis" }

QuotaErrors(v) ==
    { k \in AnalysisErrors(v) : v.response.errors[k].message = QUOTA_MESSAGE }

(* the items of the batch whose enrichment call failed with a quota error *)
QuotaFailures(v) == { j \in DOMAIN v.trace : v.trace[j].threw /\ isQuotaError(v.trace[j].message) }

(* C1: an item whose id is that of a record of the loaded store causes no    *)
(* provider call and is answered with stored = true and the first such       *)
(* record's original, analysis, timestamp and source (each where the record  *)
(* has one), whatever the latch and the earlier items' errors.               *)
C1_CacheHitServesCachedRecord ==
    \A p \in Procs :
        LET v == inv[p]
        IN  InLoop(v) =>
              \A i \in DOMAIN v.response.items :
                  v.comments[i].id \in IdsOf(file.items) =>
                      LET c == FirstWithId(file.items, v.comments[i].id)
                          item == v.response.items[i]
                      IN  /\ v.trace[i].calls = 0
                          /\ item.stored = "true"
                          /\ c.original # <<>> => item.original = c.original
                          /\ c.analysis # "" => item.analysis = c.analysis
                          /\ c.timestamp # 0 => item.timestamp = c.timestamp
                          /\ c.source # "" => item.source = c.source

C1_Witness ==
    \E p \in Procs :
        LET v == inv[p]
        IN  /\ InLoop(v)
            /\ v.quotaExceeded
            /\ \E i \in DOMAIN v.response.items :
                  /\ v.comments[i].id \in IdsOf(file.items)
                  /\ FirstWithId(file.items, v.comments[i].id).analysis # ""
                  /\ v.response.items[i].stored = "true"
                  /\ \E j \in 1..(i - 1) : v.trace[j].threw

(* C2, as stated: after a quota failure every later item of the batch makes  *)
(* no provider call, adds no quota error, and is the placeholder with        *)
(* stored = false.                                                           *)
C2_LaterItemsArePlaceholders ==
    \A p \in Procs :
        LET v == inv[p]
        IN  \A j \in QuotaFailures(v) :
                /\ Cardinality(QuotaErrors(v)) <= 1
                /\ \A i \in DOMAIN v.response.items :
                      i > j => /\ v.trace[i].calls = 0
                               /\ IsPlaceholderFor(v.response.items[i], v.comments[i])

(* C2, amended: after a quota failure every later item of the batch makes    *)
(* no provider call and adds no quota error; a later item that is not        *)
(* cached is the placeholder with stored = false, a later cached item is     *)
(* answered from the cache with stored = true.                               *)
C2_LaterItemsSkipEnrichment ==
    \A p \in Procs :
        LET v == inv[p]
        IN  \A j \in QuotaFailures(v) :
                /\ Cardinality(QuotaErrors(v)) = 1
                /\ \A k \in QuotaErrors(v) : v.response.errors[k].itemId = v.comments[j].id
                /\ \A i \in DOMAIN v.response.items :
                      i > j => /\ v.trace[i].calls = 0
                               /\ ~v.trace[i].threw
                               /\ IF v.comments[i].id \in DOMAIN v.cachedById
                                  THEN v.response.items[i].stored = "true"
                                  ELSE IsPlaceholderFor(v.response.items[i], v.comments[i])

C2_Witness ==
    \E p \in Procs :
        LET v == inv[p]
        IN  /\ v.status = 200
            /\ 1 \in QuotaFailures(v)
            /\ Len(v.response.items) = 3
            /\ v.comments[2].id \notin DOMAIN v.cachedById
            /\ v.comments[3].id \notin DOMAIN v.cachedById
            /\ IsPlaceholderFor(v.response.items[3], v.comments[3])

(* C3: the errors hold at most one analysis error with the quota message;    *)
(* every item whose call failed with another error has exactly one analysis  *)
(* error with its id, carrying that error's message.                         *)
C3_OneQuotaErrorManyOthers ==
    \A p \in Procs :
        LET v == inv[p]
        IN  /\ Cardinality(QuotaErrors(v)) <= 1
            /\ \A i \in DOMAIN v.trace :
                  v.trace[i].threw /\ ~isQuotaError(v.trace[i].message) =>
                      /\ Cardinality({ k \in AnalysisErrors(v) :
                               v.response.errors[k].itemId = v.comments[i].id }) = 1
                      /\ \E k \in AnalysisErrors(v) :
                            /\ v.response.errors[k].itemId = v.comments[i].id
                            /\ v.response.errors[k].message = v.trace[i].message

C3_Witness ==
    \E p \in Procs :
        LET v == inv[p]
        IN  /\ v.status = 200
            /\ Cardinality(QuotaErrors(v)) = 1
            /\ Cardinality(AnalysisErrors(v)) = 3
            /\ Cardinality(QuotaFailures(v)) = 1

(* no two records of the collection have the same id *)
DistinctIds(items) ==
    \A i, j \in DOMAIN items : i # j /\ items[i].id # NoId => items[i].id # items[j].id

(* C4: the collection a save has just written holds no two records with     *)
(* the same id.                                                              *)
C4_SavedIdsDistinct ==
    \A p \in Procs :
        inv[p].pc = "notify" /\ ~inv[p].saveThrew /\ file.kind = "array" =>
            DistinctIds(file.items)

(* C5: no failure escapes the handler, and every POST that ends has sent     *)
(* status 200 with the notification flag set.                                *)
C5_EveryPostAnswers200 ==
    \A p \in Procs :
        /\ inv[p].pc # "crashed"
        /\ inv[p].pc = "done" /\ inv[p].method = "POST" =>
              inv[p].status = 200 /\ inv[p].response.notificationSent

StageErrors(v, stage) ==
    { k \in DOMAIN v.response.errors : v.response.errors[k].stage = stage }

(* C6: the response has one item per fetched comment, in fetch order, and    *)
(* at most MAX_ITEMS of them.                                                *)
C6_OneItemPerFetchedComment ==
    \A p \in Procs :
        LET v == inv[p]
            items == v.response.items
        IN  /\ Len(items) <= MAX_ITEMS
            /\ Len(items) <= v.fetched
            /\ v.status = 200 =>
                  Len(items) = IF v.fetched < MAX_ITEMS THEN v.fetched ELSE MAX_ITEMS
            /\ \A i \in DOMAIN items :
                  \/ items[i].original = <<"body", i>>
                  \/ /\ i \in DOMAIN v.cachedById
                     /\ items[i].original = v.cachedById[i].original

C6_Witness ==
    \E p \in Procs :
        LET v == inv[p]
        IN  /\ v.status = 200
            /\ v.fetched > MAX_ITEMS
            /\ Len(v.response.items) = MAX_ITEMS
            /\ \A i \in DOMAIN v.response.items : v.response.items[i].stored = "false"
            /\ v.quotaExceeded

(* C7: when the fetch fails no item is processed and no provider call is     *)
(* made; the response has no item, one fetch error, no analysis error, and   *)
(* the notification flag set.                                                *)
C7_FetchFailureGivesEmptyBatch ==
    \A p \in Procs :
        LET v == inv[p]
        IN  v.fetchThrew =>
              /\ v.comments = <<>>
              /\ v.trace = <<>>
              /\ v.response.items = <<>>
              /\ v.pc # "fetch" =>
                    /\ Cardinality(StageErrors(v, "fetch")) = 1
                    /\ v.response.errors[1].stage = "fetch"
              /\ StageErrors(v, "analysis") = {}
              /\ v.status = 200 => v.response.notificationSent

C7_Witness ==
    \E p \in Procs :
        LET v == inv[p]
        IN  /\ v.fetchThrew
            /\ v.status = 200
            /\ apiKey # ""
            /\ v.storedItems # <<>>
            /\ v.response.errors[1].status = 503

(* C8: a failed save adds one storage error after all other errors and       *)
(* leaves the response's items as they were before the save; a save that     *)
(* succeeds adds no error.                                                   *)
C8_StorageErrorIsLast ==
    \A p \in Procs :
        LET v == inv[p]
        IN  v.status = 200 =>
              StageErrors(v, "storage") =
                  IF v.saveThrew THEN {Len(v.response.errors)} ELSE {}

C8_SaveKeepsResponse ==
    \A p \in Procs :
        inv[p].pc \in {"save", "notify"} =>
            /\ inv'[p].response.items = inv[p].response.items
            /\ Len(inv'[p].response.errors) >= Len(inv[p].response.errors)
            /\ SubSeq(inv'[p].response.errors, 1, Len(inv[p].response.errors))
                  = inv[p].response.errors

(* C8: in every response the storage error of a failed save is the last    *)
(* error and the only storage error, and no step from the save on changes   *)
(* the response's items or the errors already recorded.                      *)
C8_SaveFailureKeepsResponse == [](C8_StorageErrorIsLast) /\ [][C8_SaveKeepsResponse]_vars

C8_Witness ==
    \E p \in Procs :
        LET v == inv[p]
        IN  /\ v.status = 200
            /\ v.saveThrew
            /\ \E i \in DOMAIN v.response.items :
                  v.response.items[i].stored = "true" /\ v.trace[i].calls > 0
            /\ StageErrors(v, "analysis") # {}
            /\ StageErrors(v, "storage") = {Len(v.response.errors)}

(* C9: the notification flag is false while a POST is being processed, up    *)
(* to and including the save, and true in every response sent with 200.      *)
C9_NotificationSentOnlyAtEnd ==
    \A p \in Procs :
        LET v == inv[p]
        IN  /\ v.pc \in {"fetch", "load", "loop", "save", "notify", "crashed"} =>
                  ~v.response.notificationSent
            /\ v.status = 200 => v.response.notificationSent

C9_Witness ==
    \E p \in Procs :
        LET v == inv[p]
        IN  /\ v.status = 200
            /\ v.response.notificationSent
            /\ v.saveThrew
            /\ Len(v.response.items) = MAX_ITEMS
            /\ \A i \in DOMAIN v.trace : v.trace[i].threw

(* C10: without a credential every item that is not cached is the            *)
(* placeholder with stored = false and has one analysis error; no provider   *)
(* call is made, the latch stays off and no record is appended.              *)
C10_NoCredentialNoCall ==
    \A p \in Procs :
        LET v == inv[p]
        IN  apiKey = "" =>
              /\ ~v.quotaExceeded
              /\ \A i \in DOMAIN v.trace : v.trace[i].calls = 0
              /\ v.pc \in {"loop", "save", "notify"} \/ v.status = 200 =>
                    /\ Len(v.storedItems) = Cardinality(DOMAIN v.cachedById)
                    /\ IdsOf(v.storedItems) = DOMAIN v.cachedById
              /\ \A i \in DOMAIN v.response.items :
                    v.comments[i].id \notin DOMAIN v.cachedById =>
                        /\ IsPlaceholderFor(v.response.items[i], v.comments[i])
                        /\ Cardinality({ k \in AnalysisErrors(v) :
                               v.response.errors[k].itemId = v.comments[i].id }) = 1

C10_Witness ==
    \E p \in Procs :
        LET v == inv[p]
        IN  /\ apiKey = ""
            /\ v.status = 200
            /\ Len(v.response.items) = MAX_ITEMS
            /\ Cardinality(AnalysisErrors(v)) = 2
            /\ \E i \in DOMAIN v.response.items : v.response.items[i].stored = "true"

(* C11: a request whose method is not POST is answered 405, an OPTIONS       *)
(* request 204; such a request fetches nothing, makes no enrichment call,    *)
(* reads no stored record and writes nothing: the step that answers it       *)
(* leaves the persisted file as it was.                                      *)
C11_NonPostDoesNothing ==
    \A p \in Procs :
        LET v == inv[p]
        IN  v.method \in {"OPTIONS", "GET"} =>
              /\ v.status = IF v.method = "OPTIONS" THEN 204 ELSE 405
              /\ v.pc = "done"
              /\ ~v.fetchThrew /\ v.fetched = 0 /\ v.comments = <<>>
              /\ v.trace = <<>>
              /\ v.storedItems = <<>> /\ v.cachedById = <<>>
              /\ ~v.saveThrew
              /\ v.response.items = <<>> /\ v.response.errors = <<>>

C11_NonPostKeepsFile ==
    \A p \in Procs :
        inv'[p] # inv[p] /\ inv'[p].method \in {"OPTIONS", "GET"} => file' = file

C11_NonPostLeavesStore == [](C11_NonPostDoesNothing) /\ [][C11_NonPostKeepsFile]_vars

C11_Witness ==
    \E p \in Procs :
        LET v == inv[p]
        IN  /\ v.method = "GET"
            /\ v.status = 405
            /\ started = 2
            /\ file.kind = "array"
            /\ 3 \in IdsOf(file.items)

(* the provider's error messages that say the model is unknown *)
MissingMessages ==
    { <<"model", "is", "Not", "supported">>, <<"models/x", "is", "not", "found">>,
      <<"Quota", "exceeded", "model", "Not", "found">> }

CallOver == call.pc \in {"after", "returned", "threw"}

(* C12: during one enrichment call the candidates are invoked in the order   *)
(* of the list, each at most once and one at a time; a candidate after the   *)
(* first is invoked only when the one before it failed as an unknown model,  *)
(* and the call ends before the list is exhausted only on a success or on a  *)
(* failure of another kind.                                                   *)
C12_CandidatesInOrder ==
    LET n == Len(call.invoked)
    IN  /\ n <= Len(modelNames)
        /\ call.invoked = SubSeq(modelNames, 1, n)
        /\ \A j, k \in 1..n : j # k => call.invoked[j] # call.invoked[k]
        /\ Cardinality(call.inflight) <= 1
        /\ Len(call.outcomes) = n - Cardinality(call.inflight)
        /\ \A k \in 1..(n - 1) :
              ~call.outcomes[k].ok /\ call.outcomes[k].message \in MissingMessages
        /\ CallOver /\ n \in 1..(Len(modelNames) - 1) =>
              call.outcomes[n].ok \/ call.outcomes[n].message \notin MissingMessages

C12_Witness ==
    /\ call.pc = "after"
    /\ Len(call.invoked) = 3
    /\ ~call.outcomes[3].ok
    /\ call.outcomes[3].message = <<"found", "but", "not", "allowed">>

(* C13: a call that made provider invocations returns exactly when the last  *)
(* candidate invoked succeeded, with the analysis parsed from that            *)
(* candidate's text; otherwise it throws the error of the last candidate      *)
(* invoked.  The call as a whole ends as analyzeWithGemini says.              *)
C13_LastCandidateDecides ==
    LET n == Len(call.outcomes)
    IN  /\ call.pc = "returned" =>
              /\ n >= 1 /\ call.outcomes[n].ok /\ ~call.threw
              /\ [summary |-> call.summary, sentiment |-> call.sentiment]
                    = ParseAnalysis(call.outcomes[n].text)
        /\ call.pc = "threw" /\ n >= 1 =>
              /\ ~call.outcomes[n].ok /\ call.threw
              /\ call.message = call.outcomes[n].message
        /\ call.pc = "threw" /\ n = 0 => apiKey = "" /\ call.message = MISSING_KEY
        /\ call.pc \in {"returned", "threw"} =>
              [threw |-> call.threw, message |-> call.message, calls |-> n,
               summary |-> call.summary, sentiment |-> call.sentiment]
                  = analyzeWithGemini(apiKey, call.beh)

C13_Witness ==
    /\ call.pc = "returned"
    /\ Len(call.outcomes) = 3
    /\ ~call.outcomes[1].ok /\ ~call.outcomes[2].ok
    /\ call.summary = "s-fenced"

(* the provider's error messages that report a quota or rate limit *)
QuotaMessages ==
    { <<"429", "Too", "Many", "Requests">>,
      <<"Quota", "exceeded", "model", "Not", "found">> }

(* C14: the quota latch is off when an invocation starts, whatever the       *)
(* invocation before it did; it is on only when an enrichment call of this   *)
(* invocation failed with a quota or rate-limit error, the step that turns   *)
(* it on is the step of such a failure, and no later step of the invocation  *)
(* turns it off.                                                              *)
C14_LatchOnlyAfterQuotaFailure ==
    \A p \in Procs :
        LET v == inv[p]
        IN  /\ v.pc \in {"fetch", "load"} => ~v.quotaExceeded
            /\ v.quotaExceeded =>
                  \E j \in DOMAIN v.trace :
                      v.trace[j].threw /\ v.trace[j].message \in QuotaMessages

C14_LatchStep ==
    \A p \in Procs :
        /\ started' = started /\ inv[p].quotaExceeded => inv'[p].quotaExceeded
        /\ started' # started /\ inv'[p] # inv[p] => ~inv'[p].quotaExceeded
        /\ ~inv[p].quotaExceeded /\ inv'[p].quotaExceeded =>
              /\ Len(inv'[p].trace) = Len(inv[p].trace) + 1
              /\ inv'[p].trace[Len(inv'[p].trace)].threw
              /\ inv'[p].trace[Len(inv'[p].trace)].message \in QuotaMessages

C14_LatchNeverResets == [](C14_LatchOnlyAfterQuotaFailure) /\ [][C14_LatchStep]_vars

C14_Witness ==
    \E p \in Procs :
        LET v == inv[p]
        IN  /\ v.status = 200
            /\ v.quotaExceeded
            /\ Len(v.trace) = MAX_ITEMS
            /\ v.trace[1].threw /\ v.trace[1].message \in QuotaMessages
            /\ started = 2

(* the positions of the records that are the first of their id *)
FirstOccurrences(items) ==
    { i \in DOMAIN items :
        items[i].id # NoId /\ \A j \in 1..(i - 1) : items[j].id # items[i].id }

(* the k-th smallest member of a set of numbers *)
Nth(S, k) == CHOOSE x \in S : Cardinality({ y \in S : y < x }) = k - 1

(* the items of the batch enriched by a call of this invocation *)
FreshlyEnriched(v) == { i \in DOMAIN v.trace : v.trace[i].calls > 0 /\ ~v.trace[i].threw }

(* a record without its `stored` flag *)
Core(r) ==
    [id |-> r.id, email |-> r.email, source |-> r.source, original |-> r.original,
     analysis |-> r.analysis, sentiment |-> r.sentiment, timestamp |-> r.timestamp]

LoadedItems == IF file.kind = "array" THEN file.items ELSE <<>>

(* C15: from the load to the save the working collection is the records of   *)
(* the file that are the first of their id, in the file's order and with     *)
(* their fields as in the file, followed by one new record per item enriched *)
(* by a successful call of this invocation, in fetch order; cached, skipped  *)
(* and failed items add nothing.                                              *)
C15_SavedIsLoadedPlusFresh ==
    \A p \in Procs :
        LET v == inv[p]
            kept == FirstOccurrences(LoadedItems)
            fresh == FreshlyEnriched(v)
            n == Cardinality(kept)
        IN  InLoop(v) =>
              /\ Len(v.storedItems) = n + Cardinality(fresh)
              /\ \A k \in 1..n : Core(v.storedItems[k]) = Core(LoadedItems[Nth(kept, k)])
              /\ \A k \in 1..Cardinality(fresh) :
                    LET i == Nth(fresh, k)
                        r == v.storedItems[n + k]
                    IN  /\ r.id = v.comments[i].id
                        /\ r.original = v.comments[i].body
                        /\ r.analysis = v.response.items[i].analysis
                        /\ r.sentiment = <<v.response.items[i].sentiment>>
                        /\ r.timestamp = v.response.items[i].timestamp

C15_Witness ==
    \E p \in Procs :
        LET v == inv[p]
        IN  /\ v.pc = "save"
            /\ Len(LoadedItems) = 2
            /\ Cardinality(FirstOccurrences(LoadedItems)) = 1
            /\ Len(v.storedItems) = 2
            /\ Len(v.trace) = MAX_ITEMS
            /\ v.trace[1].calls = 0
            /\ v.trace[2].calls > 0 /\ ~v.trace[2].threw
            /\ v.trace[3].threw

(* a collection as a save leaves it: every record has an id, no id occurs    *)
(* twice and every `stored` flag is a boolean                                 *)
IsSavedForm(f) ==
    /\ f.kind = "array"
    /\ FirstOccurrences(f.items) = DOMAIN f.items
    /\ \A i \in DOMAIN f.items : f.items[i].stored \in {"true", "false"}

(* the step in which invocation p writes the file with success *)
Wrote(p) == inv[p].pc = "save" /\ inv'[p].pc = "notify" /\ ~inv'[p].saveThrew

C16_WrittenIsSavedForm ==
    \A p \in Procs : inv[p].pc = "notify" /\ ~inv[p].saveThrew => IsSavedForm(file)

C16_RewriteKeepsFile ==
    \A p \in Procs :
        Wrote(p) /\ FreshlyEnriched(inv[p]) = {} /\ IsSavedForm(file) => file' = file

(* C16: what an invocation writes is a de-duplicated collection with boolean *)
(* flags, and an invocation that appends no record and finds such a          *)
(* collection in the file writes the same collection back: the file is       *)
(* unchanged by its save.                                                     *)
C16_LoadSaveIdempotent == [](C16_WrittenIsSavedForm) /\ [][C16_RewriteKeepsFile]_vars

C16_Witness ==
    \E p \in Procs :
        LET v == inv[p]
        IN  /\ started = 2
            /\ v.pc = "notify" /\ ~v.saveThrew
            /\ FreshlyEnriched(v) = {}
            /\ Len(v.trace) = MAX_ITEMS
            /\ \E i \in DOMAIN v.trace : v.trace[i].threw
            /\ file = File("array", v.storedItems)
            /\ IdsOf(file.items) = {1, 3}

(* the collection invocation p hands to saveStorage *)
WorkingCopy(p) == NormalizeStored(inv[p].storedItems)

(* the ids of the records invocation p appended *)
AppendedIds(p) == { inv[p].comments[i].id : i \in FreshlyEnriched(inv[p]) }

(* every invocation has answered and its save succeeded *)
AllSaved == \A p \in Procs : inv[p].status = 200 /\ ~inv[p].saveThrew

(* l is the invocation whose save ran last (the two copies differ) *)
SavedLast(e, l) ==
    /\ AllSaved
    /\ e # l
    /\ file = File("array", WorkingCopy(l))
    /\ WorkingCopy(e) # WorkingCopy(l)

(* C17, as stated: once two overlapping invocations have both saved, a       *)
(* record that only the earlier writer appended is not in the file.          *)
C17_EarlierRecordAlwaysLost ==
    \A e, l \in Procs :
        SavedLast(e, l) =>
            \A id \in AppendedIds(e) \ AppendedIds(l) : id \notin IdsOf(file.items)

C17_ReadBeforeCallsWriteAfterItems ==
    /\ \A p \in Procs :
          LET v == inv[p]
          IN  /\ v.pc \in {"fetch", "load"} =>
                    v.trace = <<>> /\ v.storedItems = <<>> /\ v.cachedById = <<>>
              /\ v.pc \in {"save", "notify"} =>
                    Len(v.response.items) = Len(v.comments)
    /\ AllSaved => \E l \in Procs : file = File("array", WorkingCopy(l))
    /\ \A e, l \in Procs :
          SavedLast(e, l) =>
              \A id \in AppendedIds(e) \ AppendedIds(l) :
                  id \notin IdsOf(file.items) <=> id \notin DOMAIN inv[l].cachedById

C17_OneReadOneWrite ==
    /\ \A p \in Procs :
          /\ Wrote(p) => file' = File("array", WorkingCopy(p))
          /\ inv'[p].cachedById # inv[p].cachedById => inv[p].pc = "load"
          /\ inv[p].pc = "notify" => file' = file \/ inv'[p] = inv[p]
    /\ file' # file => \E p \in Procs : inv[p].pc = "save" /\ inv'[p].pc = "notify"

(* C17: an invocation takes its records from the file in its load step only, *)
(* before any enrichment call, and writes the file in its save step only,    *)
(* after the last item; a save replaces the file by the writer's working     *)
(* copy, so after two overlapping invocations the file is the working copy   *)
(* of the one that saved last, and a record that only the earlier writer     *)
(* appended is missing from it exactly when the later writer had loaded the  *)
(* file before the earlier writer saved (the record is not in its cache).    *)
C17_LastWriterWins ==
    [](C17_ReadBeforeCallsWriteAfterItems) /\ [][C17_OneReadOneWrite]_vars

C17_Witness ==
    \E e, l \in Procs :
        /\ SavedLast(e, l)
        /\ \E id \in AppendedIds(e) \ AppendedIds(l) : id \notin IdsOf(file.items)
        /\ AppendedIds(l) # {}

(* C18: a response item has stored = true exactly when its id was in the     *)
(* cache or its enrichment call of this invocation succeeded; the working    *)
(* collection holds a record of the id of every item with stored = true and  *)
(* none of the id of an item with stored = false.                             *)
C18_StoredIffCachedOrEnriched ==
    \A p \in Procs :
        LET v == inv[p]
        IN  \A i \in DOMAIN v.response.items :
                LET id == v.comments[i].id
                    item == v.response.items[i]
                IN  /\ item.stored \in {"true", "false"}
                    /\ item.stored = "true" <=>
                          id \in DOMAIN v.cachedById \/ i \in FreshlyEnriched(v)
                    /\ item.stored = "true" => id \in IdsOf(v.storedItems)
                    /\ item.stored = "false" => id \notin IdsOf(v.storedItems)

C18_Witness ==
    \E p \in Procs :
        LET v == inv[p]
        IN  /\ v.status = 200
            /\ Len(v.response.items) = MAX_ITEMS
            /\ v.response.items[1].stored = "false" /\ v.trace[1].threw
            /\ v.response.items[2].stored = "true" /\ 2 \in DOMAIN v.cachedById
            /\ v.response.items[3].stored = "true" /\ 3 \in FreshlyEnriched(v)
            /\ IdsOf(v.storedItems) = {2, 3}

StageRank(stage) ==
    CASE stage = "fetch" -> 1
      [] stage = "analysis" -> 2
      [] OTHER -> 3

(* the position in the fetched batch of the comment with this id *)
PositionOf(v, id) == CHOOSE i \in DOMAIN v.comments : v.comments[i].id = id

(* C19: the errors of a response are ordered by stage, fetch before analysis *)
(* before storage, with at most one fetch error and at most one storage      *)
(* error; the analysis errors are those of items whose call failed, in the   *)
(* order in which the items were fetched; no response has both a fetch error *)
(* and an analysis error.                                                     *)
C19_ErrorsOrderedByStage ==
    \A p \in Procs :
        LET v == inv[p]
            errs == v.response.errors
        IN  /\ \A j, k \in DOMAIN errs :
                  j < k => StageRank(errs[j].stage) <= StageRank(errs[k].stage)
            /\ \A k \in DOMAIN errs : errs[k].stage \in {"fetch", "analysis", "storage"}
            /\ Cardinality(StageErrors(v, "fetch")) <= 1
            /\ Cardinality(StageErrors(v, "storage")) <= 1
            /\ \A k \in AnalysisErrors(v) :
                  /\ errs[k].itemId \in IdsOf(v.comments)
                  /\ v.trace[PositionOf(v, errs[k].itemId)].threw
            /\ \A j, k \in AnalysisErrors(v) :
                  j < k => PositionOf(v, errs[j].itemId) < PositionOf(v, errs[k].itemId)
            /\ StageErrors(v, "fetch") = {} \/ AnalysisErrors(v) = {}

C19_Witness ==
    \E p \in Procs :
        LET v == inv[p]
            errs == v.response.errors
        IN  /\ v.status = 200
            /\ Len(errs) = 3
            /\ errs[1].stage = "analysis" /\ errs[1].itemId = 1
            /\ errs[2].stage = "analysis" /\ errs[2].itemId = 3
            /\ errs[3].stage = "storage"
            /\ v.response.items[2].stored = "true"

HasPositiveMarker(label) ==
    \E i \in DOMAIN label : label[i] \in {"Positive", "enthusiastic"}

HasNegativeMarker(label) ==
    \E i \in DOMAIN label : label[i] \in {"negative", "CRITICAL"}

(* C20: the sentiment of a response item is one of enthusiastic, critical    *)
(* and objective, whether the label came from the provider or from a cached  *)
(* record; a placeholder is objective; a label with a positive marker gives  *)
(* enthusiastic even when it has a negative marker too, a label with only    *)
(* negative markers gives critical, a label without marker objective.         *)
C20_SentimentIsCategory ==
    labelled.pc = "done" =>
        /\ labelled.item.sentiment \in {"enthusiastic", "critical", "objective"}
        /\ labelled.item.sentiment =
              IF labelled.route = "placeholder" THEN "objective"
              ELSE IF HasPositiveMarker(labelled.label) THEN "enthusiastic"
              ELSE IF HasNegativeMarker(labelled.label) THEN "critical"
              ELSE "objective"

C20_Witness ==
    /\ labelled.pc = "done"
    /\ labelled.route = "cached"
    /\ labelled.label = <<"CRITICAL", "Positive">>
    /\ labelled.item.sentiment = "enthusiastic"

====
